---------------------------- MODULE Spec2Model ----------------------------
(***************************************************************************)
(* Model of python/visitor_pattern.py: an expression tree (Binary,         *)
(* Literal), double dispatch through accept/visit_*, and the ExprPrinter   *)
(* visitor that renders a tree to a string.                                *)
(*                                                                         *)
(* Python objects live in a heap (a sequence of node records, a reference  *)
(* is an index, the None reference is 0).  A render is executed one call   *)
(* or return at a time on an explicit call stack, one stack per thread.    *)
(* Python strings are sequences of one-character strings.                  *)
(***************************************************************************)
EXTENDS Integers, Sequences, FiniteSets, TLC

VARIABLES heap, printers, stack, status, result, root, renderer, trace

vars == <<heap, printers, stack, status, result, root, renderer, trace>>

---------------------------------------------------------------------------
(* Bounds of the model.                                                    *)

\* The constructors stop once the heap holds this many nodes.
MaxNodes == 3

\* The largest number of Binary nodes of a tree the tree specification starts from.
MaxBinary == 2

\* The same, for the two-thread specification.
ConcMaxBinary == 1

---------------------------------------------------------------------------
(* Values.                                                                 *)

\* class Token(Enum)
PLUS == 1
MINUS == 2

Token == {PLUS, MINUS}

\* The None reference (an absent child).
None == 0

IntVal(i) == [kind |-> "int", n |-> i, s |-> <<>>]

\* A float is held as twice its value: FloatVal(5) is 2.5, FloatVal(6) is 3.0.
FloatVal(h) == [kind |-> "float", n |-> h, s |-> <<>>]

StrVal(s) == [kind |-> "str", n |-> 0, s |-> s]

NoneVal == [kind |-> "NoneType", n |-> 0, s |-> <<>>]

TokenVal(t) == [kind |-> "Token", n |-> t, s |-> <<>>]

\* value: int | float | str | None
LiteralValues ==
    {IntVal(i) : i \in {0, 1, 2, 3, 5, 10, -12}}
        \cup {FloatVal(h) : h \in {5, 6, -1}}
        \cup {StrVal(s) : s \in {<<"x">>, <<>>, <<"a", " ", "b">>}}
        \cup {NoneVal}

\* The literal values the larger trees are built from.
LeafValues == {IntVal(3), StrVal(<<"x">>), NoneVal}

\* What a caller can pass as operator: a Token member, or (unchecked) anything else.
OperatorArgs == {TokenVal(PLUS), TokenVal(MINUS), NoneVal}

---------------------------------------------------------------------------
(* str() and str.format().                                                 *)

RECURSIVE Digits(_)
\* The decimal digits of a natural number.
Digits(n) ==
    LET d == <<"0", "1", "2", "3", "4", "5", "6", "7", "8", "9">>[(n % 10) + 1]
    IN  IF n < 10 THEN <<d>> ELSE Append(Digits(n \div 10), d)

Abs(n) == IF n < 0 THEN -n ELSE n

Sign(n) == IF n < 0 THEN <<"-">> ELSE <<>>

TokenName(t) == IF t = PLUS THEN <<"P", "L", "U", "S">> ELSE <<"M", "I", "N", "U", "S">>

\* repr(v) in place of str(v): text comes out quoted.
repr(v) ==
    CASE v.kind = "int" -> Sign(v.n) \o Digits(Abs(v.n))
      [] v.kind = "float" ->
            Sign(v.n) \o Digits(Abs(v.n) \div 2) \o <<".">>
                \o (IF Abs(v.n) % 2 = 0 THEN <<"0">> ELSE <<"5">>)
      [] v.kind = "str" -> <<"'">> \o v.s \o <<"'">>
      [] v.kind = "NoneType" -> <<"N", "o", "n", "e">>
      [] v.kind = "Token" -> <<"T", "o", "k", "e", "n", ".">> \o TokenName(v.n)

\* str(v), for the values of the model.
str(v) ==
    CASE v.kind = "int" -> Sign(v.n) \o Digits(Abs(v.n))
      [] v.kind = "float" ->
            Sign(v.n) \o Digits(Abs(v.n) \div 2) \o <<".">>
                \o (IF Abs(v.n) % 2 = 0 THEN <<"0">> ELSE <<"5">>)
      [] v.kind = "str" -> v.s
      [] v.kind = "NoneType" -> <<"N", "o", "n", "e">>
      [] v.kind = "Token" -> <<"T", "o", "k", "e", "n", ".">> \o TokenName(v.n)

\* '({} {} {})' with the operator between the operands.
format_infix(a, b, c) ==
    <<"(">> \o b \o <<" ">> \o str(a) \o <<" ">> \o c \o <<")">>

\* '({} {} {})'.format(a, b, c)
format(a, b, c) ==
    <<"(">> \o str(a) \o <<" ">> \o b \o <<" ">> \o c \o <<")">>

---------------------------------------------------------------------------
(* The heap and the constructors.                                          *)

\* Literal.__init__
LiteralNode(value) == [cls |-> "Literal", value |-> value]

\* Binary.__init__
BinaryNode(left, operator, right) ==
    [cls |-> "Binary", left |-> left, operator |-> operator, right |-> right]

Refs == 1..Len(heap)

Threads == {"main", "worker"}

Printers == {"p1", "p2"}

Idle(t) == stack[t] = <<>>

\* Literal(value)
Literal(value) ==
    /\ Len(heap) < MaxNodes
    /\ Idle("main")
    /\ heap' = Append(heap, LiteralNode(value))
    /\ UNCHANGED <<printers, stack, status, result, root, renderer, trace>>

\* Binary(left, operator, right)
Binary(left, operator, right) ==
    /\ Len(heap) < MaxNodes
    /\ Idle("main")
    /\ heap' = Append(heap, BinaryNode(left, operator, right))
    /\ UNCHANGED <<printers, stack, status, result, root, renderer, trace>>

---------------------------------------------------------------------------
(* The call stack.                                                         *)

Frame(fn, visitor, node) ==
    [fn |-> fn, visitor |-> visitor, node |-> node, pc |-> "call", vals |-> <<>>]

Top(t) == stack[t][Len(stack[t])]

\* A call of fn(node), or its return of the string val.
Event(ev, fn, node, val) == [ev |-> ev, fn |-> fn, node |-> node, val |-> val]

\* The top frame calls fn(node) and will resume at pc.
Call(t, pc, fn, node) ==
    LET n == Len(stack[t])
        caller == [stack[t][n] EXCEPT !.pc = pc]
    IN  /\ stack' = [stack EXCEPT
                        ![t] = Append([stack[t] EXCEPT ![n] = caller],
                                      Frame(fn, Top(t).visitor, node))]
        /\ trace' = [trace EXCEPT ![t] = Append(@, Event("call", fn, node, <<>>))]
        /\ UNCHANGED <<heap, printers, status, result, root, renderer>>

\* The top frame returns v to its caller, or to the caller of the render.
Return(t, v) ==
    LET n == Len(stack[t])
        rest == SubSeq(stack[t], 1, n - 1)
    IN  /\ trace' = [trace EXCEPT ![t] = Append(@, Event("return", Top(t).fn, Top(t).node, v))]
        /\ IF n = 1
              THEN /\ stack' = [stack EXCEPT ![t] = <<>>]
                   /\ status' = [status EXCEPT ![t] = "returned"]
                   /\ result' = [result EXCEPT ![t] = v]
              ELSE /\ stack' = [stack EXCEPT
                                   ![t] = [rest EXCEPT ![n - 1].vals = Append(@, v)]]
                   /\ UNCHANGED <<status, result>>
        /\ UNCHANGED <<heap, printers, root, renderer>>

\* An AttributeError leaves every frame: nothing in the program catches it.
Raise(t) ==
    /\ stack' = [stack EXCEPT ![t] = <<>>]
    /\ status' = [status EXCEPT ![t] = "raised"]
    /\ result' = [result EXCEPT ![t] = <<>>]
    /\ UNCHANGED <<heap, printers, root, renderer, trace>>

---------------------------------------------------------------------------
(* The program.                                                            *)

\* printer.print_expr(expr), called by t on the node n.
StartRender(t, p, n) ==
    /\ Idle(t)
    /\ n \in Refs
    /\ stack' = [stack EXCEPT ![t] = <<Frame("print_expr", p, n)>>]
    /\ status' = [status EXCEPT ![t] = "running"]
    /\ result' = [result EXCEPT ![t] = <<>>]
    /\ root' = [root EXCEPT ![t] = n]
    /\ renderer' = [renderer EXCEPT ![t] = p]
    /\ trace' = [trace EXCEPT ![t] = <<Event("call", "print_expr", n, <<>>)>>]
    /\ UNCHANGED <<heap, printers>>

\* print_expr keeps the string in an attribute of the printer before returning
\* it: self.out = expr.accept(self); return self.out
print_expr_shared(t) ==
    /\ ~Idle(t)
    /\ Top(t).fn = "print_expr"
    /\ \/ /\ Top(t).pc = "call"
          /\ Top(t).node = None
          /\ Raise(t)
       \/ /\ Top(t).pc = "call"
          /\ Top(t).node # None
          /\ Call(t, "store", "accept", Top(t).node)
       \/ /\ Top(t).pc = "store"
          /\ printers' = [printers EXCEPT ![Top(t).visitor] = Top(t).vals[1]]
          /\ stack' = [stack EXCEPT ![t][Len(stack[t])].pc = "ret"]
          /\ UNCHANGED <<heap, status, result, root, renderer, trace>>
       \/ /\ Top(t).pc = "ret"
          /\ Return(t, printers[Top(t).visitor])

\* ExprPrinter.print_expr: return expr.accept(self)
print_expr(t) ==
    /\ ~Idle(t)
    /\ Top(t).fn = "print_expr"
    /\ \/ /\ Top(t).pc = "call"
          /\ Top(t).node = None
          /\ Raise(t)
       \/ /\ Top(t).pc = "call"
          /\ Top(t).node # None
          /\ Call(t, "ret", "accept", Top(t).node)
       \/ /\ Top(t).pc = "ret"
          /\ Return(t, Top(t).vals[1])

\* Binary.accept dispatching to the wrong operation: visitor.visit_literal(self)
Binary_accept_as_literal(t) ==
    /\ ~Idle(t)
    /\ Top(t).fn = "accept"
    /\ heap[Top(t).node].cls = "Binary"
    /\ \/ /\ Top(t).pc = "call"
          /\ Call(t, "ret", "visit_literal", Top(t).node)
       \/ /\ Top(t).pc = "ret"
          /\ Return(t, Top(t).vals[1])

\* Binary.accept: return visitor.visit_binary(self)
Binary_accept(t) ==
    /\ ~Idle(t)
    /\ Top(t).fn = "accept"
    /\ heap[Top(t).node].cls = "Binary"
    /\ \/ /\ Top(t).pc = "call"
          /\ Call(t, "ret", "visit_binary", Top(t).node)
       \/ /\ Top(t).pc = "ret"
          /\ Return(t, Top(t).vals[1])

\* Literal.accept: return visitor.visit_literal(self)
Literal_accept(t) ==
    /\ ~Idle(t)
    /\ Top(t).fn = "accept"
    /\ heap[Top(t).node].cls = "Literal"
    /\ \/ /\ Top(t).pc = "call"
          /\ Call(t, "ret", "visit_literal", Top(t).node)
       \/ /\ Top(t).pc = "ret"
          /\ Return(t, Top(t).vals[1])

\* visit_binary rendering the right operand first, into the same output.
visit_binary_right_first(t) ==
    /\ ~Idle(t)
    /\ Top(t).fn = "visit_binary"
    /\ LET element == heap[Top(t).node]
       IN  \/ /\ element.cls # "Binary"
              /\ Raise(t)
           \/ /\ element.cls = "Binary"
              /\ Top(t).pc = "call"
              /\ Call(t, "left", "print_expr", element.right)
           \/ /\ element.cls = "Binary"
              /\ Top(t).pc = "left"
              /\ Call(t, "format", "print_expr", element.left)
           \/ /\ element.cls = "Binary"
              /\ Top(t).pc = "format"
              /\ Return(t, format(element.operator, Top(t).vals[2], Top(t).vals[1]))

\* visit_binary rendering element.left for both operands.
visit_binary_left_twice(t) ==
    /\ ~Idle(t)
    /\ Top(t).fn = "visit_binary"
    /\ LET element == heap[Top(t).node]
       IN  \/ /\ element.cls # "Binary"
              /\ Raise(t)
           \/ /\ element.cls = "Binary"
              /\ Top(t).pc = "call"
              /\ Call(t, "right", "print_expr", element.left)
           \/ /\ element.cls = "Binary"
              /\ Top(t).pc = "right"
              /\ Call(t, "format", "print_expr", element.left)
           \/ /\ element.cls = "Binary"
              /\ Top(t).pc = "format"
              /\ Return(t, format(element.operator, Top(t).vals[1], Top(t).vals[2]))

\* ExprPrinter.visit_binary: format's arguments are evaluated left to right.
visit_binary(t) ==
    /\ ~Idle(t)
    /\ Top(t).fn = "visit_binary"
    /\ LET element == heap[Top(t).node]
       IN  \/ /\ element.cls # "Binary"
              /\ Raise(t)
           \/ /\ element.cls = "Binary"
              /\ Top(t).pc = "call"
              /\ Call(t, "right", "print_expr", element.left)
           \/ /\ element.cls = "Binary"
              /\ Top(t).pc = "right"
              /\ Call(t, "format", "print_expr", element.right)
           \/ /\ element.cls = "Binary"
              /\ Top(t).pc = "format"
              /\ Return(t, format(element.operator, Top(t).vals[1], Top(t).vals[2]))

\* visit_literal reading an attribute a Literal does not have (element.values).
visit_literal_typo(t) ==
    /\ ~Idle(t)
    /\ Top(t).fn = "visit_literal"
    /\ Raise(t)

\* visit_literal remembering, in the printer, the last string it produced.
visit_literal_caching(t) ==
    /\ ~Idle(t)
    /\ Top(t).fn = "visit_literal"
    /\ LET element == heap[Top(t).node]
           n == Len(stack[t])
           v == str(element.value)
       IN  /\ element.cls = "Literal"
           /\ n > 1
           /\ printers' = [printers EXCEPT ![Top(t).visitor] = v]
           /\ stack' = [stack EXCEPT
                            ![t] = [SubSeq(stack[t], 1, n - 1) EXCEPT
                                       ![n - 1].vals = Append(@, v)]]
           /\ trace' = [trace EXCEPT
                            ![t] = Append(@, Event("return", "visit_literal", Top(t).node, v))]
           /\ UNCHANGED <<heap, status, result, root, renderer>>

\* visit_literal returning str(element): the object's default text, which
\* names the object and not its value.
visit_literal_identity(t) ==
    /\ ~Idle(t)
    /\ Top(t).fn = "visit_literal"
    /\ Return(t, <<"<", "L", "i", "t", "e", "r", "a", "l", " ", "a", "t", " ">>
                    \o Digits(Top(t).node) \o <<">">>)

\* ExprPrinter.visit_literal: return str(element.value)
visit_literal(t) ==
    /\ ~Idle(t)
    /\ Top(t).fn = "visit_literal"
    /\ LET element == heap[Top(t).node]
       IN  \/ /\ element.cls # "Literal"
              /\ Raise(t)
           \/ /\ element.cls = "Literal"
              /\ Return(t, str(element.value))

\* One call or return of the render thread t runs.
Step(t) ==
    \/ print_expr(t)
    \/ Binary_accept(t)
    \/ Literal_accept(t)
    \/ visit_binary(t)
    \/ visit_literal(t)

RECURSIVE RenderSeq(_, _)
\* What print_expr returns for the node n when it runs alone, uninterrupted.
RenderSeq(h, n) ==
    IF h[n].cls = "Literal"
       THEN str(h[n].value)
       ELSE format(h[n].operator, RenderSeq(h, h[n].left), RenderSeq(h, h[n].right))

---------------------------------------------------------------------------
(* Specifications.                                                         *)

NoThreads ==
    /\ printers = [p \in Printers |-> <<>>]
    /\ stack = [t \in Threads |-> <<>>]
    /\ status = [t \in Threads |-> "idle"]
    /\ result = [t \in Threads |-> <<>>]
    /\ root = [t \in Threads |-> None]
    /\ renderer = [t \in Threads |-> "p1"]
    /\ trace = [t \in Threads |-> <<>>]

\* The module is loaded: no node exists yet.
Init ==
    /\ heap = <<>>
    /\ NoThreads

\* The main thread builds nodes and renders them.
Next ==
    \/ \E v \in LeafValues : Literal(v)
    \/ \E l, r \in Refs \cup {None}, op \in OperatorArgs : Binary(l, op, r)
    \/ \E n \in Refs : StartRender("main", "p1", n)
    \/ Step("main")

Spec == Init /\ [][Next]_vars

---------------------------------------------------------------------------
(* Heaps left by a nested constructor expression.                          *)

\* The heap h with every reference moved up by k (None stays None).
Shift(h, k) ==
    [i \in 1..Len(h) |->
        IF h[i].cls = "Binary"
           THEN BinaryNode(IF h[i].left = None THEN None ELSE h[i].left + k,
                           h[i].operator,
                           IF h[i].right = None THEN None ELSE h[i].right + k)
           ELSE h[i]]

\* Binary(<hl>, op, <hr>): Python evaluates the left argument, then the right
\* one, then constructs the Binary; an empty heap stands for the argument None.
Compose(hl, op, hr) ==
    LET l == Len(hl)
        r == Len(hr)
    IN  hl \o Shift(hr, l)
           \o <<BinaryNode(IF l = 0 THEN None ELSE l, op, IF r = 0 THEN None ELSE l + r)>>

RECURSIVE TreeHeaps(_, _, _, _)
\* The heaps of the constructor expressions with exactly b Binary nodes, literal
\* values from leaves, operators from ops and, if absent, None for a child.
TreeHeaps(b, leaves, ops, absent) ==
    LET Child(k) ==
            TreeHeaps(k, leaves, ops, absent)
                \cup (IF k = 0 /\ absent THEN {<<>>} ELSE {})
    IN  IF b = 0
           THEN {<<LiteralNode(v)>> : v \in leaves}
           ELSE UNION {{Compose(hl, op, hr) : hl \in Child(i), op \in ops,
                                              hr \in Child(b - 1 - i)} :
                       i \in 0..(b - 1)}

Lit(i) == <<LiteralNode(IntVal(i))>>

\* expr = Binary(Literal(3), Token.PLUS, Literal(5))
expr == Compose(Lit(3), TokenVal(PLUS), Lit(5))

\* Binary(Binary(Literal(1), Token.PLUS, Literal(2)), Token.MINUS, Literal(3))
NestedExpr ==
    Compose(Compose(Lit(1), TokenVal(PLUS), Lit(2)), TokenVal(MINUS), Lit(3))

\* The root of a heap left by one constructor expression: its last node.
Root == Len(heap)

\* A caller has evaluated one constructor expression.
InitTree ==
    /\ heap \in TreeHeaps(0, LiteralValues, OperatorArgs, TRUE)
                  \cup UNION {TreeHeaps(b, {IntVal(3), StrVal(<<"x">>)}, OperatorArgs, TRUE) :
                              b \in 1..MaxBinary}
                  \cup {expr, NestedExpr}
    /\ NoThreads

\* The main thread renders the expression, any number of times.
NextTree ==
    \/ StartRender("main", "p1", Root)
    \/ Step("main")

TreeSpec == InitTree /\ [][NextTree]_vars

\* Every call that is made returns or raises: Python runs a thread's next step.
FairTreeSpec == TreeSpec /\ WF_vars(Step("main"))

\* Two threads share the nodes of one well-formed constructor expression.
InitConc ==
    /\ heap \in UNION {TreeHeaps(b, {IntVal(3), StrVal(<<"x">>)},
                                 {TokenVal(PLUS), TokenVal(MINUS)}, FALSE) :
                       b \in 0..ConcMaxBinary}
    /\ NoThreads

\* Each thread renders any node, the worker with the main thread's printer or
\* with one of its own; their steps interleave.
NextConc ==
    \/ \E n \in Refs : StartRender("main", "p1", n)
    \/ \E p \in Printers, n \in Refs : StartRender("worker", p, n)
    \/ \E t \in Threads : Step(t)

ConcSpec == InitConc /\ [][NextConc]_vars

---------------------------------------------------------------------------
(* Trees.                                                                  *)

RECURSIVE Nodes(_, _)
\* The nodes of the tree under n (none under the None reference).
Nodes(h, n) ==
    IF n = None THEN {}
    ELSE IF h[n].cls = "Literal" THEN {n}
    ELSE {n} \cup Nodes(h, h[n].left) \cup Nodes(h, h[n].right)

\* Every Binary under n has two children and a Token operator.
WellFormed(h, n) ==
    /\ n # None
    /\ \A b \in Nodes(h, n) :
          h[b].cls = "Binary" =>
              /\ h[b].left # None
              /\ h[b].right # None
              /\ h[b].operator \in {TokenVal(PLUS), TokenVal(MINUS)}

RECURSIVE IsTree(_, _)
\* No node under n is reached along two paths.
IsTree(h, n) ==
    \/ n = None
    \/ h[n].cls = "Literal"
    \/ /\ h[n].cls = "Binary"
       /\ Nodes(h, h[n].left) \cap Nodes(h, h[n].right) = {}
       /\ IsTree(h, h[n].left)
       /\ IsTree(h, h[n].right)

RECURSIVE Depth(_, _)
\* The number of nodes on the longest path from n down to a leaf.
Depth(h, n) ==
    IF n = None THEN 0
    ELSE IF h[n].cls = "Literal" THEN 1
    ELSE LET dl == Depth(h, h[n].left)
             dr == Depth(h, h[n].right)
         IN  1 + (IF dl > dr THEN dl ELSE dr)

Returned(t) == status[t] = "returned"

---------------------------------------------------------------------------
(* The expected output.                                                    *)

\* The canonical text of each literal value, written out.
CanonicalText(v) ==
    CASE v = IntVal(0) -> <<"0">>
      [] v = IntVal(1) -> <<"1">>
      [] v = IntVal(2) -> <<"2">>
      [] v = IntVal(3) -> <<"3">>
      [] v = IntVal(5) -> <<"5">>
      [] v = IntVal(10) -> <<"1", "0">>
      [] v = IntVal(-12) -> <<"-", "1", "2">>
      [] v = FloatVal(5) -> <<"2", ".", "5">>
      [] v = FloatVal(6) -> <<"3", ".", "0">>
      [] v = FloatVal(-1) -> <<"-", "0", ".", "5">>
      [] v = StrVal(<<"x">>) -> <<"x">>
      [] v = StrVal(<<>>) -> <<>>
      [] v = StrVal(<<"a", " ", "b">>) -> <<"a", " ", "b">>
      [] v = NoneVal -> <<"N", "o", "n", "e">>

\* The operator's text: the member's bare name, or its qualified name.
OperatorText(op, qualified) ==
    (IF qualified THEN <<"T", "o", "k", "e", "n", ".">> ELSE <<>>)
        \o (IF op = TokenVal(PLUS) THEN <<"P", "L", "U", "S">>
                                   ELSE <<"M", "I", "N", "U", "S">>)

RECURSIVE Expected(_, _, _)
\* "(" + operator + " " + render(left) + " " + render(right) + ")"
Expected(h, n, qualified) ==
    IF h[n].cls = "Literal"
       THEN CanonicalText(h[n].value)
       ELSE <<"(">> \o OperatorText(h[n].operator, qualified)
                \o <<" ">> \o Expected(h, h[n].left, qualified)
                \o <<" ">> \o Expected(h, h[n].right, qualified) \o <<")">>

RenderedBinary(t) ==
    /\ Returned(t)
    /\ heap[root[t]].cls = "Binary"
    /\ WellFormed(heap, root[t])

---------------------------------------------------------------------------
(* C1: a well-formed Binary renders as "(" + nameOf(op) + " " + render(l)   *)
(* + " " + render(r) + ")".                                                *)

\* C1 as claimed: nameOf(op) is the bare name, so Binary(Literal(3), PLUS,
\* Literal(5)) renders as "(PLUS 3 5)".
C1_BareOperatorName ==
    RenderedBinary("main") => result["main"] = Expected(heap, root["main"], FALSE)

\* C1 amended: every well-formed Binary renders as "(" + str(op) + " " +
\* render(l) + " " + render(r) + ")" where str(op) is "Token.PLUS" or
\* "Token.MINUS"; the two examples render as "(Token.PLUS 3 5)" and
\* "(Token.MINUS (Token.PLUS 1 2) 3)".
C1_QualifiedOperatorName ==
    RenderedBinary("main") =>
        /\ result["main"] = Expected(heap, root["main"], TRUE)
        /\ heap = expr => result["main"] = <<"(", "T", "o", "k", "e", "n", ".", "P", "L", "U", "S", " ", "3", " ", "5", ")">>
        /\ heap = NestedExpr => result["main"] = 
              <<"(", "T", "o", "k", "e", "n", ".", "M", "I", "N", "U", "S", " ", "(", "T", "o", "k", "e", "n", ".", "P", "L", "U", "S", " ", "1", " ", "2", ")", " ", "3", ")">>

\* The nested example has been rendered.
C1_Witness ==
    /\ RenderedBinary("main")
    /\ heap = NestedExpr
    /\ result["main"] = 
              <<"(", "T", "o", "k", "e", "n", ".", "M", "I", "N", "U", "S", " ", "(", "T", "o", "k", "e", "n", ".", "P", "L", "U", "S", " ", "1", " ", "2", ")", " ", "3", ")">>

---------------------------------------------------------------------------
(* C2: a Binary with an absent child or an invalid operator is rejected at  *)
(* construction, so none ever exists.                                      *)

\* C2: every Binary node of the heap has two children and a Token operator.
C2_BinaryValidated ==
    \A b \in Refs :
        heap[b].cls = "Binary" =>
            /\ heap[b].left # None
            /\ heap[b].right # None
            /\ heap[b].operator \in {TokenVal(PLUS), TokenVal(MINUS)}

---------------------------------------------------------------------------
(* C3: a Literal renders as the canonical text of its value.               *)

RECURSIVE DecimalValue(_)
\* The natural number a sequence of decimal digits denotes.
DecimalValue(digits) ==
    IF digits = <<>> THEN 0
    ELSE LET last == digits[Len(digits)]
             d == CHOOSE k \in 0..9 :
                     <<"0", "1", "2", "3", "4", "5", "6", "7", "8", "9">>[k + 1] = last
         IN  10 * DecimalValue(SubSeq(digits, 1, Len(digits) - 1)) + d

Digit(c) == c \in {"0", "1", "2", "3", "4", "5", "6", "7", "8", "9"}

RenderedLiteral(t) ==
    /\ Returned(t)
    /\ heap[root[t]].cls = "Literal"

\* C3: print_expr(Literal(v)) is the canonical text of v: an int is its decimal
\* digits (with "-" if negative) and reads back as v, a float is its decimal
\* form, text is the text itself with no quoting, None is "None".
C3_LiteralCanonicalText ==
    RenderedLiteral("main") =>
        LET v == heap[root["main"]].value
            out == result["main"]
            unsigned == IF v.n < 0 THEN Tail(out) ELSE out
        IN  /\ out = CanonicalText(v)
            /\ v.kind = "int" =>
                  /\ (v.n < 0) = (out # <<>> /\ Head(out) = "-")
                  /\ unsigned # <<>>
                  /\ \A i \in 1..Len(unsigned) : Digit(unsigned[i])
                  /\ DecimalValue(unsigned) = Abs(v.n)
            /\ v.kind = "str" => out = v.s
            /\ v.kind = "NoneType" => out = <<"N", "o", "n", "e">>

\* Literal("x") has been rendered, as x.
C3_Witness ==
    /\ RenderedLiteral("main")
    /\ heap[root["main"]].value = StrVal(<<"x">>)
    /\ result["main"] = <<"x">>

---------------------------------------------------------------------------
(* Reading a trace.                                                        *)

IsVisit(e) == e.fn \in {"visit_binary", "visit_literal"}

\* The visitor operation that belongs to the class of node n.
VisitOf(h, n) == IF h[n].cls = "Binary" THEN "visit_binary" ELSE "visit_literal"

\* How many times fn was called on node n.
Calls(tr, fn, n) ==
    Cardinality({k \in DOMAIN tr : tr[k].ev = "call" /\ tr[k].fn = fn /\ tr[k].node = n})

\* The visits that have started and not returned after the first k events.
ActiveAfter(tr, k) ==
    Cardinality({i \in 1..k : tr[i].ev = "call" /\ IsVisit(tr[i])})
        - Cardinality({i \in 1..k : tr[i].ev = "return" /\ IsVisit(tr[i])})

\* The visit frames on the stack of t.
ActiveVisits(t) == Cardinality({i \in DOMAIN stack[t] : IsVisit(stack[t][i])})

---------------------------------------------------------------------------
(* C4: accept dispatches on the node's kind.                               *)

\* C4: every accept(n) invokes exactly one visitor operation, the one of n's
\* class (visit_binary for a Binary, visit_literal for a Literal, never the
\* other), on n itself, and returns that operation's result unchanged.
C4_DoubleDispatch ==
    LET tr == trace["main"]
    IN  \A k \in DOMAIN tr :
            LET e == tr[k]
            IN  /\ (e.ev = "call" /\ e.fn = "accept" /\ k < Len(tr)) =>
                      tr[k + 1] = Event("call", VisitOf(heap, e.node), e.node, <<>>)
                /\ (e.ev = "return" /\ e.fn = "accept") =>
                      tr[k - 1] = Event("return", VisitOf(heap, e.node), e.node, e.val)
                /\ (e.ev = "call" /\ IsVisit(e)) =>
                      /\ e.fn = VisitOf(heap, e.node)
                      /\ tr[k - 1] = Event("call", "accept", e.node, <<>>)
                      /\ Calls(tr, "visit_binary", e.node) + Calls(tr, "visit_literal", e.node)
                             <= Calls(tr, "accept", e.node)

\* A render has returned in which accept ran on a Binary and on a Literal.
C4_Witness ==
    /\ Returned("main")
    /\ \E k \in DOMAIN trace["main"] :
          trace["main"][k].ev = "return" /\ trace["main"][k].fn = "visit_binary"
    /\ \E k \in DOMAIN trace["main"] :
          trace["main"][k].ev = "return" /\ trace["main"][k].fn = "visit_literal"

---------------------------------------------------------------------------
(* C5: rendering a well-formed tree terminates with a string.              *)

\* C5: a render of a well-formed tree, once started, returns a string, and it
\* never raises.
C5_RenderTerminates ==
    /\ [](WellFormed(heap, Root) => status["main"] # "raised")
    /\ (status["main"] = "running" /\ WellFormed(heap, Root)) ~> Returned("main")

\* A well-formed tree of depth 3 has been rendered.
C5_Witness ==
    /\ Returned("main")
    /\ WellFormed(heap, root["main"])
    /\ Depth(heap, root["main"]) = 3

---------------------------------------------------------------------------
(* C6: the left subtree is rendered before the right one.                  *)

\* C6: for every Binary b of a tree, every visit of a node under b.left happens
\* before any visit of a node under b.right, the left subtree is completely
\* rendered when the first visit under b.right starts, and b's own visit
\* returns after the visits of both children have returned.
C6_LeftBeforeRight ==
    LET tr == trace["main"]
    IN  IsTree(heap, root["main"]) =>
            \A b \in Nodes(heap, root["main"]) :
                heap[b].cls = "Binary" =>
                    LET L == Nodes(heap, heap[b].left)
                        R == Nodes(heap, heap[b].right)
                        Done(n, k) ==
                            \E j \in 1..(k - 1) :
                                /\ tr[j].ev = "return"
                                /\ tr[j].fn = VisitOf(heap, n)
                                /\ tr[j].node = n
                    IN  \A k \in DOMAIN tr :
                            /\ (IsVisit(tr[k]) /\ tr[k].node \in R) =>
                                  /\ \A j \in DOMAIN tr :
                                        (IsVisit(tr[j]) /\ tr[j].node \in L) => j < k
                                  /\ \A n \in L : Done(n, k)
                            /\ (tr[k].ev = "return" /\ tr[k].fn = "visit_binary"
                                    /\ tr[k].node = b) =>
                                  \A n \in L \cup R : Done(n, k)

\* A well-formed tree whose left child is itself a Binary has been rendered.
C6_Witness ==
    /\ RenderedBinary("main")
    /\ heap[heap[root["main"]].left].cls = "Binary"

---------------------------------------------------------------------------
(* C7: rendering changes no node and no printer.                           *)

\* C7: a step of a render (print_expr, accept, visit_binary, visit_literal)
\* leaves every field of every node and the state of every printer unchanged.
C7_RenderIsPure ==
    [][stack' # stack => (heap' = heap /\ printers' = printers)]_vars

\* A tree of depth 3 has been rendered, and the printers hold nothing.
C7_Witness ==
    /\ Returned("main")
    /\ heap[root["main"]].cls = "Binary"
    /\ Depth(heap, root["main"]) = 3
    /\ \A p \in Printers : printers[p] = <<>>

---------------------------------------------------------------------------
(* C8: concurrent renders each produce the sequential result.              *)

\* C8: under every interleaving, every string a thread's print_expr returns,
\* for the root and for every node below it, is the string a sequential render
\* of that node produces.
C8_ConcurrentRendersAgree ==
    \A t \in Threads :
        /\ Returned(t) => result[t] = RenderSeq(heap, root[t])
        /\ \A k \in DOMAIN trace[t] :
              (trace[t][k].ev = "return" /\ trace[t][k].fn = "print_expr") =>
                  trace[t][k].val = RenderSeq(heap, trace[t][k].node)

\* One thread has returned from a render of a Binary while the other, using
\* the same printer, is in the middle of a render.
C8_Witness ==
    /\ Returned("main")
    /\ heap[root["main"]].cls = "Binary"
    /\ Len(stack["worker"]) >= 3
    /\ Len(trace["main"]) > 6
    /\ renderer["main"] = renderer["worker"]

---------------------------------------------------------------------------
(* C9: rendering is deterministic.                                         *)

RECURSIVE SameTree(_, _, _)
\* The trees under a and b have the same shape, operators and literal values.
SameTree(h, a, b) ==
    /\ h[a].cls = h[b].cls
    /\ IF h[a].cls = "Literal"
          THEN h[a].value = h[b].value
          ELSE /\ h[a].operator = h[b].operator
               /\ SameTree(h, h[a].left, h[b].left)
               /\ SameTree(h, h[a].right, h[b].right)

\* C9: two renders of the same tree, or of two trees of the same shape,
\* operators and literal values, by the same printer or by different ones,
\* return the same string.
C9_Deterministic ==
    \A t, u \in Threads :
        (Returned(t) /\ Returned(u) /\ SameTree(heap, root[t], root[u])) =>
            result[t] = result[u]

\* Two printers have rendered two distinct nodes that hold equal trees.
C9_Witness ==
    /\ Returned("main")
    /\ Returned("worker")
    /\ root["main"] # root["worker"]
    /\ SameTree(heap, root["main"], root["worker"])
    /\ renderer["main"] # renderer["worker"]

---------------------------------------------------------------------------
(* C10: every node is visited once; the visits in progress are bounded by   *)
(* the depth.                                                              *)

\* C10: in a render of a well-formed tree no node is visited twice and the
\* visits in progress never exceed the depth of the tree; when the render
\* returns, every node has been visited exactly once, by the operation of its
\* class, and the visits in progress have reached the depth exactly.
C10_VisitsAndDepth ==
    LET tr == trace["main"]
        r == root["main"]
        N == Nodes(heap, r)
        Binaries == {n \in N : heap[n].cls = "Binary"}
        Visits(fn) == Cardinality({k \in DOMAIN tr : tr[k].ev = "call" /\ tr[k].fn = fn})
    IN  (status["main"] # "idle" /\ WellFormed(heap, r) /\ IsTree(heap, r)) =>
            /\ ActiveVisits("main") <= Depth(heap, r)
            /\ \A k \in DOMAIN tr : ActiveAfter(tr, k) <= Depth(heap, r)
            /\ \A n \in N :
                  Calls(tr, "visit_binary", n) + Calls(tr, "visit_literal", n) <= 1
            /\ Returned("main") =>
                  /\ \A n \in N : Calls(tr, VisitOf(heap, n), n) = 1
                  /\ Visits("visit_binary") = Cardinality(Binaries)
                  /\ Visits("visit_literal") = Cardinality(N \ Binaries)
                  /\ \E k \in DOMAIN tr : ActiveAfter(tr, k) = Depth(heap, r)

\* A well-formed tree of depth 3 is being rendered with 3 visits in progress.
C10_Witness ==
    /\ WellFormed(heap, root["main"])
    /\ Depth(heap, root["main"]) = 3
    /\ ActiveVisits("main") = 3

=============================================================================
